---- MODULE Spec2Model ----
(***************************************************************************)
(* State-machine model of the path tracers of raytracing-weekend-rs:       *)
(*   - rest_of_life: the recursive radiance estimator `color`, the         *)
(*     materials it dispatches to, and the parallel render loop of `main`; *)
(*   - weekend (s9-metal, s13-next): the depth-counted `ray_color`.        *)
(*                                                                         *)
(* f32 values are modelled as exact fractions <<n, d>> in lowest terms,    *)
(* d > 0, extended with the IEEE specials +inf = <<1,0>>, -inf = <<-1,0>>  *)
(* and NaN = <<0,0>>.  Rounding and the sign of zero are not modelled; the *)
(* inputs are chosen so that every square root taken is exact.             *)
(***************************************************************************)
EXTENDS Integers, Sequences, FiniteSets, TLC

----------------------------------------------------------------------------
(* f32 arithmetic                                                          *)

Abs(n) == IF n < 0 THEN -n ELSE n

Sgn(n) == IF n > 0 THEN 1 ELSE IF n < 0 THEN -1 ELSE 0

RECURSIVE GCD(_, _)
GCD(a, b) == IF b = 0 THEN a ELSE GCD(b, a % b)

Norm(n, d) ==
    IF d = 0 THEN <<Sgn(n), 0>>
    ELSE IF n = 0 THEN <<0, 1>>
    ELSE LET s == IF d < 0 THEN -1 ELSE 1
             g == GCD(Abs(n), Abs(d))
         IN  <<(s * n) \div g, (s * d) \div g>>

F(n) == <<n, 1>>
Frac(n, d) == Norm(n, d)

NaN == <<0, 0>>
PInf == <<1, 0>>
NInf == <<-1, 0>>
Zero == <<0, 1>>
One == <<1, 1>>

IsNaN(x) == x = NaN
IsInf(x) == x[2] = 0 /\ x[1] # 0
IsFinite(x) == x[2] > 0

FNeg(x) == <<-x[1], x[2]>>

FAdd(x, y) ==
    IF IsNaN(x) \/ IsNaN(y) THEN NaN
    ELSE IF IsInf(x) THEN (IF IsInf(y) /\ y # x THEN NaN ELSE x)
    ELSE IF IsInf(y) THEN y
    ELSE LET g == GCD(x[2], y[2])
         IN  Norm(x[1] * (y[2] \div g) + y[1] * (x[2] \div g),
                  (x[2] \div g) * y[2])

FSub(x, y) == FAdd(x, FNeg(y))

FMul(x, y) ==
    IF IsNaN(x) \/ IsNaN(y) THEN NaN
    ELSE IF x[2] = 0 \/ y[2] = 0 THEN <<Sgn(x[1]) * Sgn(y[1]), 0>>
    ELSE IF x[1] = 0 \/ y[1] = 0 THEN Zero
    ELSE LET g == GCD(Abs(x[1]), y[2])
             h == GCD(Abs(y[1]), x[2])
         IN  <<(x[1] \div g) * (y[1] \div h), (x[2] \div h) * (y[2] \div g)>>

FInv(y) ==
    IF y[1] = 0 THEN (IF y[2] = 0 THEN NaN ELSE PInf)
    ELSE IF y[2] = 0 THEN Zero
    ELSE IF y[1] > 0 THEN <<y[2], y[1]>>
    ELSE <<-y[2], -y[1]>>

\* x / y; 0/0 and inf/inf are NaN, x/0 is +-inf for x # 0
FDiv(x, y) ==
    IF IsNaN(x) \/ IsNaN(y) THEN NaN
    ELSE IF y = Zero THEN <<Sgn(x[1]), 0>>
    ELSE FMul(x, FInv(y))

\* x < y; every comparison with NaN is false
FLt(x, y) ==
    IF IsNaN(x) \/ IsNaN(y) THEN FALSE
    ELSE IF x[2] = 0 /\ y[2] = 0 THEN x[1] < y[1]
    ELSE IF x[2] = 0 THEN x[1] < 0
    ELSE IF y[2] = 0 THEN y[1] > 0
    ELSE x[1] * y[2] < y[1] * x[2]

FGt(x, y) == FLt(y, x)

\* x >= y; false when either is NaN
FGe(x, y) == ~IsNaN(x) /\ ~IsNaN(y) /\ ~FLt(x, y)

\* f32::max: the non-NaN operand when one is NaN
FMax(x, y) == IF IsNaN(x) THEN y ELSE IF IsNaN(y) THEN x ELSE IF FLt(x, y) THEN y ELSE x

FMin(x, y) == IF IsNaN(x) THEN y ELSE IF IsNaN(y) THEN x ELSE IF FLt(y, x) THEN y ELSE x

RECURSIVE FPowi(_, _)
FPowi(x, k) == IF k = 0 THEN One ELSE FMul(x, FPowi(x, k - 1))

IsSquareInt(n) == \E r \in 0..n : r * r = n
ISqrt(n) == CHOOSE r \in 0..n : r * r = n

\* the inputs on which sqrt is exact
SqrtExact(x) ==
    \/ ~IsFinite(x)
    \/ x[1] < 0
    \/ IsSquareInt(x[1]) /\ IsSquareInt(x[2])

FSqrt(x) ==
    IF IsNaN(x) THEN NaN
    ELSE IF x = PInf THEN PInf
    ELSE IF x[1] < 0 THEN NaN
    ELSE <<ISqrt(x[1]), ISqrt(x[2])>>

----------------------------------------------------------------------------
(* Vector3<f32>                                                            *)

Vec(x, y, z) == <<F(x), F(y), F(z)>>
VZeros == Vec(0, 0, 0)
VOnes == Vec(1, 1, 1)

VAdd(a, b) == <<FAdd(a[1], b[1]), FAdd(a[2], b[2]), FAdd(a[3], b[3])>>
VSub(a, b) == <<FSub(a[1], b[1]), FSub(a[2], b[2]), FSub(a[3], b[3])>>
VNeg(a) == <<FNeg(a[1]), FNeg(a[2]), FNeg(a[3])>>
VScale(s, a) == <<FMul(s, a[1]), FMul(s, a[2]), FMul(s, a[3])>>
VDivS(a, s) == <<FDiv(a[1], s), FDiv(a[2], s), FDiv(a[3], s)>>
\* zip_map(|l, r| l * r)
VZipMul(a, b) == <<FMul(a[1], b[1]), FMul(a[2], b[2]), FMul(a[3], b[3])>>
VDot(a, b) == FAdd(FAdd(FMul(a[1], b[1]), FMul(a[2], b[2])), FMul(a[3], b[3]))
VMagSq(a) == VDot(a, a)
VMag(a) == FSqrt(VMagSq(a))
VNormalize(a) == VDivS(a, VMag(a))

----------------------------------------------------------------------------
(* Option, Ray, HitRecord                                                  *)

None == [some |-> FALSE]
Some(v) == [some |-> TRUE, val |-> v]

\* Ray::new(origin, direction, time)
Ray(o, d, t) == [origin |-> o, direction |-> d, time |-> t]

\* HitRecord: the fields `color` and the materials read.  The constant
\* texture ignores (u, v), and t is not read after the intersection.
HitRecord(p, n, m) == [p |-> p, normal |-> n, material |-> m]

----------------------------------------------------------------------------
(* material.rs                                                             *)

\* f32::consts::PI, to the precision of an f32 (355/113 = 3.1415929)
PI == Frac(355, 113)

\* v - 2.0 * v.dot(n) * n
reflect(v, n) == VSub(v, VScale(FMul(F(2), VDot(v, n)), n))

refract_discriminant(v, n, ni_over_nt) ==
    LET uv == VNormalize(v)
        dt == VDot(uv, n)
    IN  FSub(One, FMul(FPowi(ni_over_nt, 2), FSub(One, FPowi(dt, 2))))

refract(v, n, ni_over_nt) ==
    LET uv == VNormalize(v)
        dt == VDot(uv, n)
        discriminant == refract_discriminant(v, n, ni_over_nt)
    IN  IF FGt(discriminant, Zero)
        THEN Some(VSub(VScale(ni_over_nt, VSub(uv, VScale(dt, n))),
                       VScale(FSqrt(discriminant), n)))
        ELSE None

schlick(cosine, ref_idx) ==
    LET r0 == FPowi(FDiv(FSub(One, ref_idx), FAdd(One, ref_idx)), 2)
    IN  FAdd(r0, FMul(FSub(One, r0), FPowi(FSub(One, cosine), 5)))

\* the materials, as values
Lambertian(albedo) == [kind |-> "Lambertian", albedo |-> albedo]
\* Metal::new clamps fuzz to at most 1
Metal(albedo, fuzz) ==
    [kind |-> "Metal", albedo |-> albedo,
     fuzz |-> IF FLt(fuzz, One) THEN fuzz ELSE One]
Dielectric(ref_idx) == [kind |-> "Dielectric", ref_idx |-> ref_idx]
DiffuseLight(emit) == [kind |-> "DiffuseLight", emit |-> emit]

\* ScatterRecord
Specular(specular_ray, attenuation) ==
    [kind |-> "Specular", specular_ray |-> specular_ray, attenuation |-> attenuation]
Scatter(pdf, attenuation) ==
    [kind |-> "Scatter", pdf |-> pdf, attenuation |-> attenuation]

\* PDF::cosine(normal): the cosine density around a normal
CosinePdf(w) == [kind |-> "Cosine", w |-> w]

\* trait Material, default methods
DefaultScatter == None
DefaultScatteringPdf == One
DefaultEmitted == VZeros

LambertianScatter(m, hit) == Some(Scatter(CosinePdf(hit.normal), m.albedo))

LambertianScatteringPdf(hit, scattered) ==
    LET cosine == FMax(VDot(hit.normal, VNormalize(scattered.direction)), Zero)
    IN  FDiv(cosine, PI)

\* rs: the value random_in_unit_sphere() returns, drawn only when fuzz > 0
MetalScatter(m, ray, hit, rs) ==
    LET r0 == reflect(VNormalize(ray.direction), hit.normal)
        reflected == IF FGt(m.fuzz, Zero) THEN VAdd(r0, VScale(m.fuzz, rs)) ELSE r0
    IN  IF FGt(VDot(reflected, hit.normal), Zero)
        THEN Some(Specular(Ray(hit.p, reflected, ray.time), m.albedo))
        ELSE None

\* the (outward_normal, ni_over_nt, cosine) triple of Dielectric::scatter
DielectricSetup(m, ray, hit) ==
    LET d == ray.direction
        dn == VDot(d, hit.normal)
    IN  IF FGt(dn, Zero)
        THEN [outward_normal |-> VNeg(hit.normal),
              ni_over_nt |-> m.ref_idx,
              cosine |-> FDiv(FMul(m.ref_idx, dn), VMag(d))]
        ELSE [outward_normal |-> hit.normal,
              ni_over_nt |-> FDiv(One, m.ref_idx),
              cosine |-> FDiv(FNeg(dn), VMag(d))]

DielectricRefracted(m, ray, hit) ==
    LET s == DielectricSetup(m, ray, hit)
    IN  refract(ray.direction, s.outward_normal, s.ni_over_nt)

\* draw: the value of rand::thread_rng().gen::<f32>(), read only when
\* refract returns Some
DielectricScatter_gt_mutant(m, ray, hit, draw) ==
    LET s == DielectricSetup(m, ray, hit)
        refracted == DielectricRefracted(m, ray, hit)
        reflected == reflect(ray.direction, hit.normal)
    IN  IF refracted.some /\ FGt(draw, schlick(s.cosine, m.ref_idx))
        THEN Some(Specular(Ray(hit.p, refracted.val, ray.time), VOnes))
        ELSE Some(Specular(Ray(hit.p, reflected, ray.time), VOnes))

DielectricScatter(m, ray, hit, draw) ==
    LET s == DielectricSetup(m, ray, hit)
        refracted == DielectricRefracted(m, ray, hit)
        reflected == reflect(ray.direction, hit.normal)
    IN  IF refracted.some /\ FGe(draw, schlick(s.cosine, m.ref_idx))
        THEN Some(Specular(Ray(hit.p, refracted.val, ray.time), VOnes))
        ELSE Some(Specular(Ray(hit.p, reflected, ray.time), VOnes))

DiffuseLightEmitted_le_mutant(m, ray, hit) ==
    IF ~FGt(VDot(hit.normal, ray.direction), Zero) THEN m.emit ELSE VZeros

DiffuseLightEmitted(m, ray, hit) ==
    IF FLt(VDot(hit.normal, ray.direction), Zero) THEN m.emit ELSE VZeros

\* dynamic dispatch of hit.material.scatter / scattering_pdf / emitted
MaterialScatter(m, ray, hit, draw, rs) ==
    CASE m.kind = "Lambertian" -> LambertianScatter(m, hit)
      [] m.kind = "Metal" -> MetalScatter(m, ray, hit, rs)
      [] m.kind = "Dielectric" -> DielectricScatter(m, ray, hit, draw)
      [] OTHER -> DefaultScatter

MaterialScatteringPdf(m, hit, scattered) ==
    IF m.kind = "Lambertian" THEN LambertianScatteringPdf(hit, scattered)
    ELSE DefaultScatteringPdf

MaterialEmitted(m, ray, hit) ==
    IF m.kind = "DiffuseLight" THEN DiffuseLightEmitted(m, ray, hit)
    ELSE DefaultEmitted

----------------------------------------------------------------------------
(* pdf.rs: the PDF abstraction `color` consumes                             *)

Half == Frac(1, 2)

HittablePdf(origin) == [kind |-> "Hittable", origin |-> origin]
MixturePdf(p0, p1) == [kind |-> "Mixture", p0 |-> p0, p1 |-> p1]

\* value(direction).  hv is the solid-angle density of the light shapes
\* along `direction` (0 when the auxiliary ray misses them); it depends on
\* the scene geometry and is an input here.
RECURSIVE PdfValue(_, _, _)
PdfValue(pdf, direction, hv) ==
    CASE pdf.kind = "Cosine" ->
            FDiv(FMax(VDot(VNormalize(direction), pdf.w), Zero), PI)
      [] pdf.kind = "Hittable" -> hv
      [] pdf.kind = "Mixture" ->
            FAdd(FMul(Half, PdfValue(pdf.p0, direction, hv)),
                 FMul(Half, PdfValue(pdf.p1, direction, hv)))

----------------------------------------------------------------------------
(* The scenes and the inputs                                               *)

\* rest_of_life MAX_DEPTH
MAX_DEPTH == 1000

\* the most calls of `color` (or `ray_color`) nested in one run of the model
MaxNest == 2

white == Lambertian(<<Frac(73, 100), Frac(73, 100), Frac(73, 100)>>)
light == DiffuseLight(Vec(15, 15, 15))
glass == Dielectric(Frac(3, 2))
aluminum == Metal(<<Frac(4, 5), Frac(17, 20), Frac(22, 25)>>, Zero)
\* a dielectric whose index matches its surroundings
matched == Dielectric(One)

\* the two coloured walls of the box
red == Lambertian(<<Frac(13, 20), Frac(1, 20), Frac(1, 20)>>)
green == Lambertian(<<Frac(3, 25), Frac(9, 20), Frac(3, 20)>>)

\* the shapes cornell_box builds
AARect(plane, a0, a1, b0, b1, k, material) ==
    [shape |-> "AARect", plane |-> plane, a0 |-> a0, a1 |-> a1,
     b0 |-> b0, b1 |-> b1, k |-> k, material |-> material]
Sphere(center, radius, material) ==
    [shape |-> "Sphere", center |-> center, radius |-> radius,
     material |-> material]
Cube(p_min, p_max, material) ==
    [shape |-> "Cube", p_min |-> p_min, p_max |-> p_max, material |-> material]
FlipNormals(inner) == [shape |-> "FlipNormals", inner |-> inner]
Rotate(axis, inner, angle) ==
    [shape |-> "Rotate", axis |-> axis, inner |-> inner, angle |-> angle]
Translate(inner, offset) ==
    [shape |-> "Translate", inner |-> inner, offset |-> offset]

light_shape == AARect("ZX", 227, 332, 213, 343, 554, light)
glass_sphere == Sphere(<<190, 90, 190>>, 90, glass)

\* cornell_box: the `world` list, in the order of its pushes
cornell_box_world ==
    << FlipNormals(AARect("YZ", 0, 555, 0, 555, 555, green)),
       AARect("YZ", 0, 555, 0, 555, 0, red),
       FlipNormals(light_shape),
       FlipNormals(AARect("ZX", 0, 555, 0, 555, 555, white)),
       AARect("ZX", 0, 555, 0, 555, 0, white),
       FlipNormals(AARect("XY", 0, 555, 0, 555, 555, white)),
       glass_sphere,
       Translate(Rotate("Y", Cube(<<0, 0, 0>>, <<165, 330, 165>>, aluminum), 15),
                 <<265, 0, 295>>) >>

\* cornell_box: the `light_shapes` list, in the order of its pushes
cornell_box_light_shapes == <<light_shape, glass_sphere>>

\* the material a hit on a shape reports: a wrapper forwards its child's
RECURSIVE ShapeMaterial(_)
ShapeMaterial(s) ==
    IF s.shape \in {"FlipNormals", "Rotate", "Translate"}
    THEN ShapeMaterial(s.inner)
    ELSE s.material

\* the materials a hit on the world of cornell_box can report, and a scene
\* with no emitter
CornellWorld ==
    {ShapeMaterial(cornell_box_world[i]) : i \in 1..Len(cornell_box_world)}
UnlitWorld == {white, matched, aluminum}
Worlds == {CornellWorld, UnlitWorld}

\* ray directions: along and across the normals, and two 3-4-5 slants
Dirs == {Vec(0, -1, 0), Vec(0, 1, 0), Vec(1, 0, 0), Vec(3, -4, 0), Vec(4, 3, 0)}
Normals == {Vec(0, 1, 0), Vec(0, -1, 0)}
Points == {"p1", "p2"}
Times == {Zero, Half}
\* values of rng.gen::<f32>(), in [0, 1)
Draws == {Zero, Half}
\* densities of the light shapes along a direction: 0 (missed) or 1/PI
HittableVals == {Zero, FInv(PI)}
\* random_in_unit_sphere() is consulted only by a Metal with fuzz > 0
UnitSpherePoints == {VZeros}
\* depths at which a run of `color` starts: main's 0, and around the cap
StartDepths == {0, MAX_DEPTH - 1, MAX_DEPTH, MAX_DEPTH + 1}

----------------------------------------------------------------------------
(* State                                                                   *)

VARIABLES
    prog,     \* the function a behaviour runs: "color", "ray_color" or "main"
    world,    \* the materials of the scene handed to the integrator
    depth0,   \* the depth argument of the outermost call
    cur,      \* the locals of the call that is executing
    stack,    \* the suspended callers, innermost first: the locals they
              \* still read once the recursive call returns
    shading,  \* main: the radiance the scene returns for each sample
    claimed,  \* main: the rows a worker thread has taken
    task,     \* main: what each worker thread of the pool is doing
    rows,     \* main: the Vec<u8> each finished row closure returned
    finished, \* main: the rows in the order in which they completed
    image,    \* main: the collected image, once every row is done
    rngUses   \* main: which generator each pixel drew from, on which thread

estimatorVars == <<world, depth0, cur, stack>>
mainVars == <<shading, claimed, task, rows, finished, image, rngUses>>
vars == <<prog, estimatorVars, mainVars>>

----------------------------------------------------------------------------
(* rest_of_life/src/main.rs: color                                         *)

\* the ray and hit of a caller are dead once it has made its recursive call
Dropped == Ray("dropped", VZeros, Zero)

\* the locals of a call of `color` on entry
Entered(ray, depth) ==
    [pc |-> "enter", depth |-> depth, ray |-> ray, hit |-> None,
     emitted |-> VZeros, consulted |-> FALSE, kind |-> "",
     attenuation |-> VZeros, next_ray |-> None, pdf_fun |-> None,
     pdf_val |-> Zero, scattering_pdf |-> Zero, drawn |-> None,
     calls |-> 0, incoming |-> None, value |-> VZeros]

\* `if depth < MAX_DEPTH`
DepthAllowsScatter_le_mutant(depth) == depth <= MAX_DEPTH

DepthAllowsScatter(depth) == depth < MAX_DEPTH

\* the value returned when world.hit finds nothing
MissValue == VZeros

\* the Specular arm after its recursive call returned `incoming`
SpecularResult_unattenuated_mutant(emitted, attenuation, incoming) == incoming

SpecularResult(emitted, attenuation, incoming) == VZipMul(attenuation, incoming)

\* the Scatter arm after its recursive call returned `incoming`
ScatterResult_guard_mutant(emitted, attenuation, scattering_pdf, pdf_val, incoming) ==
    IF pdf_val = Zero THEN emitted
    ELSE VAdd(emitted,
              VDivS(VZipMul(attenuation, VScale(scattering_pdf, incoming)), pdf_val))

ScatterResult(emitted, attenuation, scattering_pdf, pdf_val, incoming) ==
    VAdd(emitted,
         VDivS(VZipMul(attenuation, VScale(scattering_pdf, incoming)), pdf_val))

\* the ray the Scatter arm casts along the generated direction
ScatteredRay(ray, hit, gen) == Ray(hit.p, gen, ray.time)

\* Dielectric::scatter draws from the generator only once refract has
\* returned Some
DrawConsumed(m, ray, hit) ==
    m.kind = "Dielectric" /\ DielectricRefracted(m, ray, hit).some

\* `color` from its entry to its return or to its recursive call.
\*   h     the result of world.hit(ray, 0.001, f32::MAX)
\*   draw  the f32 Dielectric::scatter draws, rs the point Metal draws
\*   gen   the direction pdf_fun.generate() returns
\*   hv    the density of the light shapes along gen
ColorEval(ray, depth, h, draw, rs, gen, hv) ==
    LET e == [Entered(ray, depth) EXCEPT !.hit = h]
    IN  IF ~h.some
        THEN [e EXCEPT !.pc = "ret", !.kind = "NoHit", !.value = MissValue]
        ELSE
        LET hit == h.val
            emitted == MaterialEmitted(hit.material, ray, hit)
            he == [e EXCEPT !.emitted = emitted]
        IN  IF ~DepthAllowsScatter(depth)
            THEN [he EXCEPT !.pc = "ret", !.kind = "Capped", !.value = emitted]
            ELSE
            LET sc == MaterialScatter(hit.material, ray, hit, draw, rs)
                se == [he EXCEPT !.consulted = TRUE,
                                 !.drawn = IF DrawConsumed(hit.material, ray, hit)
                                           THEN Some(draw) ELSE None]
            IN  IF ~sc.some
                THEN [se EXCEPT !.pc = "ret", !.kind = "None", !.value = emitted]
                ELSE IF sc.val.kind = "Specular"
                THEN [se EXCEPT !.pc = "call", !.kind = "Specular",
                                !.attenuation = sc.val.attenuation,
                                !.next_ray = Some(sc.val.specular_ray)]
                ELSE
                LET hittable_pdf == HittablePdf(hit.p)
                    pdf_fun == MixturePdf(hittable_pdf, sc.val.pdf)
                    scattered == ScatteredRay(ray, hit, gen)
                    pdf_val == PdfValue(pdf_fun, scattered.direction, hv)
                    scattering_pdf ==
                        MaterialScatteringPdf(hit.material, hit, scattered)
                IN  [se EXCEPT !.pc = "call", !.kind = "Scatter",
                               !.attenuation = sc.val.attenuation,
                               !.next_ray = Some(scattered),
                               !.pdf_fun = Some(pdf_fun),
                               !.pdf_val = pdf_val,
                               !.scattering_pdf = scattering_pdf]

\* what a suspended caller keeps
Suspended(c) ==
    [depth |-> c.depth, kind |-> c.kind, emitted |-> c.emitted,
     attenuation |-> c.attenuation, scattering_pdf |-> c.scattering_pdf,
     pdf_val |-> c.pdf_val, consulted |-> c.consulted,
     pdf_built |-> c.pdf_fun.some]

\* the caller `f` resumes with the value of its recursive call
Resumed(f, incoming) ==
    [Entered(Dropped, f.depth) EXCEPT
        !.pc = "ret", !.kind = f.kind, !.emitted = f.emitted,
        !.attenuation = f.attenuation, !.scattering_pdf = f.scattering_pdf,
        !.pdf_val = f.pdf_val, !.consulted = f.consulted,
        !.pdf_fun = IF f.pdf_built THEN Some("dropped") ELSE None,
        !.calls = 1, !.incoming = Some(incoming),
        !.value = IF f.kind = "Specular"
                  THEN SpecularResult(f.emitted, f.attenuation, incoming)
                  ELSE ScatterResult(f.emitted, f.attenuation,
                                     f.scattering_pdf, f.pdf_val, incoming)]

\* where a ray from `origin` lands: world.hit(ray, 0.001, f32::MAX) reports a
\* point at t > 0.001 along the ray, which is never the ray's origin
HitPoint(origin) == IF origin = "p1" THEN "p2" ELSE "p1"

\* the intersections the scene can report for a ray
HitOutcomes(ray) ==
    {None} \cup {Some(HitRecord(HitPoint(ray.origin), n, m)) :
                    n \in Normals, m \in world}

\* the hits whose scatter the fractions compute exactly
ExactHit(ray, h) ==
    IF ~h.some THEN TRUE
    ELSE IF h.val.material.kind # "Dielectric" THEN TRUE
    ELSE LET s == DielectricSetup(h.val.material, ray, h.val)
         IN  SqrtExact(refract_discriminant(ray.direction, s.outward_normal,
                                            s.ni_over_nt))

\* the render loop's variables while an estimator alone is run
MainIdle ==
    /\ shading = "none"
    /\ claimed = {}
    /\ task = <<>>
    /\ rows = <<>>
    /\ finished = <<>>
    /\ image = None
    /\ rngUses = {}

InitColor ==
    /\ prog = "color"
    /\ MainIdle
    /\ world \in Worlds
    /\ depth0 \in StartDepths
    /\ \E d \in Dirs, t \in Times : cur = Entered(Ray("camera", d, t), depth0)
    /\ stack = <<>>

\* the body of `color`, up to its return or its recursive call
ColorEnter ==
    /\ prog = "color"
    /\ cur.pc = "enter"
    /\ \E h \in HitOutcomes(cur.ray), draw \in Draws, rs \in UnitSpherePoints,
          gen \in Dirs, hv \in HittableVals :
            /\ ExactHit(cur.ray, h)
            /\ cur' = ColorEval(cur.ray, cur.depth, h, draw, rs, gen, hv)
    /\ UNCHANGED <<prog, world, depth0, stack, mainVars>>

\* color(&specular_ray / &scattered, world, light_shape, depth + 1)
ColorRecurse ==
    /\ prog = "color"
    /\ cur.pc = "call"
    /\ Len(stack) + 1 < MaxNest
    /\ stack' = <<Suspended(cur)>> \o stack
    /\ cur' = Entered(cur.next_ray.val, cur.depth + 1)
    /\ UNCHANGED <<prog, world, depth0, mainVars>>

\* a nested call returns its value to its caller, which returns in turn
ColorReturn ==
    /\ prog = "color"
    /\ cur.pc = "ret"
    /\ stack # <<>>
    /\ cur' = Resumed(Head(stack), cur.value)
    /\ stack' = Tail(stack)
    /\ UNCHANGED <<prog, world, depth0, mainVars>>

----------------------------------------------------------------------------
(* weekend/s9-metal and weekend/s13-next: ray_color                        *)

\* weekend MAX_DEPTH
WEEKEND_MAX_DEPTH == 50

\* depths at which a run of `ray_color` starts: main's MAX_DEPTH, and
\* around zero
WeekendStartDepths == {WEEKEND_MAX_DEPTH, 1, 0, -1}

\* the scenes: two hittables, in both orders
WeekendWorlds == {<<"lambertian", "metal">>, <<"metal", "lambertian">>}

\* ray parameters at which a ray can cross a shape; the first is below t_min
TVals == {Frac(1, 2000), One, F(2)}

\* attenuations a weekend material can report
WeekendAttenuations == {<<Half, Half, Half>>, <<Frac(4, 5), Frac(3, 5), Frac(1, 5)>>}

\* the t_min of the closest-hit loop, 0.001
T_MIN == Frac(1, 1000)

\* Ray::new(origin, direction)
WRay(o, d) == [origin |-> o, direction |-> d]

\* the HitRecord with which ray_color initialises rec and temp_rec
BlankRec ==
    [p |-> "origin", normal |-> "zero", material |-> "default",
     t |-> Zero, front_face |-> FALSE]

\* shape.hit(r, t_min, t_max, rec): the nearest crossing strictly inside
\* (t_min, t_max), given the crossings `roots` of the ray with the shape
ShapeHit(roots, t_min, t_max) ==
    LET inside == {t \in roots : FLt(t_min, t) /\ FLt(t, t_max)}
    IN  IF inside = {} THEN None
        ELSE Some(CHOOSE t \in inside : \A u \in inside : ~FLt(u, t))

\* the t_max the loop hands to shape.hit
LoopTMax_infinity_mutant(st) == PInf

LoopTMax(st) == st.closest_so_far

\* the closest-hit loop from the i-th member on.  st holds hit_anything,
\* closest_so_far, rec and temp_rec.
RECURSIVE HitLoop(_, _, _, _)
HitLoop(w, roots, i, st) ==
    IF i > Len(w) THEN st
    ELSE LET h == ShapeHit(roots[i], T_MIN, LoopTMax(st))
             temp == IF h.some
                     THEN [p |-> <<"at", h.val>>, normal |-> <<"normal", i, h.val>>,
                           material |-> w[i], t |-> h.val,
                           front_face |-> <<"front_face", i, h.val>>]
                     ELSE [st.temp_rec EXCEPT !.material = w[i]]
         IN  IF h.some
             THEN HitLoop(w, roots, i + 1,
                          [hit_anything |-> TRUE, closest_so_far |-> temp.t,
                           rec |-> temp, temp_rec |-> temp])
             ELSE HitLoop(w, roots, i + 1, [st EXCEPT !.temp_rec = temp])

ClosestHit(w, roots) ==
    HitLoop(w, roots, 1,
            [hit_anything |-> FALSE, closest_so_far |-> PInf,
             rec |-> BlankRec, temp_rec |-> BlankRec])

\* the background gradient of a ray that hits nothing
Background(r) ==
    LET unit_direction == VNormalize(r.direction)
        t == FMul(Half, FAdd(unit_direction[2], One))
    IN  VAdd(VScale(FSub(One, t), VOnes),
             VScale(t, <<Half, Frac(7, 10), One>>))

\* `if depth <= 0`
DepthExhausted(depth) == depth <= 0

\* the locals of a call of `ray_color` on entry
WEntered(r, depth) ==
    [pc |-> "enter", depth |-> depth, ray |-> r, intersected |-> FALSE,
     roots |-> <<>>, closest_so_far |-> PInf,
     hit_anything |-> FALSE, rec |-> BlankRec, consulted |-> FALSE,
     attenuation |-> VZeros, next_ray |-> None,
     calls |-> 0, incoming |-> None, value |-> VZeros]

\* `ray_color` from its entry to its return or to its recursive call.
\*   roots  the crossings of r with each member of world
\*   sc     whether rec.material.scatter succeeds, att and dir the
\*          attenuation and the scattered direction it writes
RayColorEval(r, w, depth, roots, sc, att, dir) ==
    LET e == WEntered(r, depth)
    IN  IF DepthExhausted(depth)
        THEN [e EXCEPT !.pc = "ret", !.value = VZeros]
        ELSE
        LET st == ClosestHit(w, roots)
            le == [e EXCEPT !.intersected = TRUE, !.roots = roots,
                            !.closest_so_far = st.closest_so_far,
                            !.hit_anything = st.hit_anything,
                            !.rec = st.rec]
        IN  IF st.hit_anything
            THEN IF sc
                 THEN [le EXCEPT !.pc = "call", !.consulted = TRUE,
                                 !.attenuation = att,
                                 !.next_ray = Some(WRay(st.rec.p, dir))]
                 ELSE [le EXCEPT !.pc = "ret", !.consulted = TRUE, !.value = VZeros]
            ELSE [le EXCEPT !.pc = "ret", !.value = Background(r)]

\* the depth argument of the nested call
NestedDepth_same_mutant(depth) == depth

NestedDepth(depth) == depth - 1

InitRayColor ==
    /\ prog = "ray_color"
    /\ MainIdle
    /\ world \in WeekendWorlds
    /\ depth0 \in WeekendStartDepths
    /\ \E d \in Dirs : cur = WEntered(WRay("camera", d), depth0)
    /\ stack = <<>>

\* the body of `ray_color`, up to its return or its recursive call
RayColorEnter ==
    /\ prog = "ray_color"
    /\ cur.pc = "enter"
    /\ \E roots \in [1..Len(world) -> SUBSET TVals], sc \in BOOLEAN,
          att \in WeekendAttenuations, dir \in Dirs :
            cur' = RayColorEval(cur.ray, world, cur.depth, roots, sc, att, dir)
    /\ UNCHANGED <<prog, world, depth0, stack, mainVars>>

\* ray_color(scattered, world, depth - 1)
RayColorRecurse ==
    /\ prog = "ray_color"
    /\ cur.pc = "call"
    /\ Len(stack) + 1 < MaxNest
    /\ stack' = <<[depth |-> cur.depth, attenuation |-> cur.attenuation]>> \o stack
    /\ cur' = WEntered(cur.next_ray.val, NestedDepth(cur.depth))
    /\ UNCHANGED <<prog, world, depth0, mainVars>>

\* attenuation * ray_color(...)
RayColorReturn ==
    /\ prog = "ray_color"
    /\ cur.pc = "ret"
    /\ stack # <<>>
    /\ cur' = [WEntered(Dropped, Head(stack).depth) EXCEPT
                  !.pc = "ret", !.intersected = TRUE, !.hit_anything = TRUE,
                  !.consulted = TRUE,
                  !.attenuation = Head(stack).attenuation,
                  !.calls = 1, !.incoming = Some(cur.value),
                  !.value = VZipMul(Head(stack).attenuation, cur.value)]
    /\ stack' = Tail(stack)
    /\ UNCHANGED <<prog, world, depth0, mainVars>>

----------------------------------------------------------------------------
(* The specification of the two recursive estimators                       *)

Init == InitColor \/ InitRayColor

Next ==
    \/ ColorEnter
    \/ ColorRecurse
    \/ ColorReturn
    \/ RayColorEnter
    \/ RayColorRecurse
    \/ RayColorReturn

Spec == Init /\ [][Next]_vars

----------------------------------------------------------------------------
(* rest_of_life/src/main.rs: main                                          *)

\* image width nx, height ny and samples per pixel ns (500, 500 and 1000 in
\* main), scaled down
NX == 2
NY == 2
NS == 1
\* the worker threads of the rayon pool
NumThreads == 2

Threads == 1..NumThreads

\* what the scene returns for sample s of pixel (x, y): the sum of the
\* samples decides the pixel, so a run fixes one of three scenes
Shadings == {"flat", "ramp", "nan"}

Shade(sh, x, y, s) ==
    CASE sh = "flat" -> <<Frac(1, 4), Frac(1, 4), Frac(1, 4)>>
      [] sh = "ramp" -> <<Frac(x, 4), Frac(y, 4), F(2)>>
      [] OTHER -> <<NaN, FNeg(One), PInf>>

\* (255.99 * (c / ns).sqrt().max(0.0).min(1.0)) as u8
ToByte(c, ns) ==
    LET q == FDiv(c, F(ns))
    IN  IF IsNaN(q) \/ FLt(q, Zero) THEN 0
        ELSE IF FGe(q, One) THEN 255
        ELSE CHOOSE k \in 0..255 :
                /\ k * k * q[2] * 10000 <= 655308801 * q[1]
                /\ (k + 1) * (k + 1) * q[2] * 10000 > 655308801 * q[1]

\* the three bytes of a pixel, each tagged with the pixel and channel it
\* was computed for
PixelBytes(col, x, y) ==
    [c \in 1..3 |-> [v |-> ToByte(col[c], NS), x |-> x, y |-> y, c |-> c - 1]]

\* rand::thread_rng(): the calling thread's own generator
ThreadRng_global_mutant(w) == "global"

ThreadRng(w) == <<"thread_rng", w>>

\* the order in which collect lays the rows out: (0..ny).rev()
RowOrder_forward_mutant == [i \in 1..NY |-> i - 1]

RowOrder == [i \in 1..NY |-> NY - i]

RECURSIVE Concat(_, _)
Concat(order, rs) ==
    IF order = <<>> THEN <<>> ELSE rs[Head(order)] \o Concat(Tail(order), rs)

Idle == [state |-> "idle"]

InitMain ==
    /\ prog = "main"
    /\ world = {}
    /\ depth0 = 0
    /\ cur = None
    /\ stack = <<>>
    /\ shading \in Shadings
    /\ claimed = {}
    /\ task = [w \in Threads |-> Idle]
    /\ rows = [y \in 0..(NY - 1) |-> None]
    /\ finished = <<>>
    /\ image = None
    /\ rngUses = {}

\* an idle worker thread takes a row that no thread has taken
StartRow(w) ==
    /\ prog = "main"
    /\ task[w].state = "idle"
    /\ \E y \in (0..(NY - 1)) \ claimed :
        /\ claimed' = claimed \cup {y}
        /\ task' = [task EXCEPT ![w] =
                      [state |-> "row", y |-> y, x |-> 0, s |-> 0,
                       col |-> VZeros, out |-> <<>>]]
    /\ UNCHANGED <<prog, estimatorVars, shading, rows, finished, image, rngUses>>

\* one sample of the pixel the thread is at: the generator is fetched and
\* drawn from, `color` is summed; the last sample emits the pixel's bytes
SamplePixel(w) ==
    /\ prog = "main"
    /\ task[w].state = "row"
    /\ task[w].x < NX
    /\ LET t == task[w]
           col == VAdd(t.col, Shade(shading, t.x, t.y, t.s))
       IN  /\ rngUses' = rngUses \cup
                 {[rng |-> ThreadRng(w), thread |-> w, px |-> <<t.x, t.y>>]}
           /\ task' = [task EXCEPT ![w] =
                 IF t.s + 1 < NS
                 THEN [t EXCEPT !.s = t.s + 1, !.col = col]
                 ELSE [t EXCEPT !.x = t.x + 1, !.s = 0, !.col = VZeros,
                                !.out = t.out \o PixelBytes(col, t.x, t.y)]]
    /\ UNCHANGED <<prog, estimatorVars, shading, claimed, rows, finished, image>>

\* the row closure returns its Vec<u8>
FinishRow(w) ==
    /\ prog = "main"
    /\ task[w].state = "row"
    /\ task[w].x = NX
    /\ rows' = [rows EXCEPT ![task[w].y] = Some(task[w].out)]
    /\ finished' = Append(finished, task[w].y)
    /\ task' = [task EXCEPT ![w] = Idle]
    /\ UNCHANGED <<prog, estimatorVars, shading, claimed, image, rngUses>>

\* collect::<Vec<u8>>(): the rows, in the order of the iterator
Collect ==
    /\ prog = "main"
    /\ image = None
    /\ \A y \in 0..(NY - 1) : rows[y].some
    /\ image' = Some(Concat(RowOrder, [y \in 0..(NY - 1) |-> rows[y].val]))
    /\ UNCHANGED <<prog, estimatorVars, shading, claimed, task, rows, finished, rngUses>>

NextMain ==
    \/ \E w \in Threads : StartRow(w)
    \/ \E w \in Threads : SamplePixel(w)
    \/ \E w \in Threads : FinishRow(w)
    \/ Collect

SpecMain == InitMain /\ [][NextMain]_vars

----------------------------------------------------------------------------
(* Properties of `color` (rest_of_life)                                    *)

\* the call of `color` in `cur` has run its body and made no recursive call
\* yet: its ray, hit and scatter record are in `cur`
Evaluated == prog = "color" /\ cur.pc \in {"call", "ret"} /\ cur.calls = 0

\* the call of `color` in `cur` has got the value of its recursive call
Returned == prog = "color" /\ cur.pc = "ret" /\ cur.calls = 1

\* the records hit.material.scatter can return for the call in `cur`
ScatterOutcomes ==
    {MaterialScatter(cur.hit.val.material, cur.ray, cur.hit.val, draw, rs) :
        draw \in Draws, rs \in UnitSpherePoints}

\* C1: the terminal cases of `color` return without a recursive call:
\* (a) no hit gives the zero vector at every depth; (b) a hit at
\* depth >= MAX_DEPTH gives the material's `emitted` and `scatter` is not
\* consulted; (c) a hit below the cap whose `scatter` is None gives `emitted`.
C1_TerminalCases ==
    Evaluated =>
        /\ ~cur.hit.some =>
              cur.pc = "ret" /\ cur.value = VZeros /\ cur.next_ray = None
        /\ (cur.hit.some /\ cur.depth >= MAX_DEPTH) =>
              /\ cur.pc = "ret"
              /\ cur.next_ray = None
              /\ ~cur.consulted
              /\ cur.value = MaterialEmitted(cur.hit.val.material, cur.ray, cur.hit.val)
        /\ (cur.hit.some /\ cur.depth < MAX_DEPTH /\ ScatterOutcomes = {None}) =>
              /\ cur.pc = "ret"
              /\ cur.next_ray = None
              /\ cur.value = MaterialEmitted(cur.hit.val.material, cur.ray, cur.hit.val)

\* a hit on the light at the depth cap returns the light's emission
C1_Witness ==
    /\ Evaluated
    /\ cur.hit.some
    /\ cur.depth >= MAX_DEPTH
    /\ cur.pc = "ret"
    /\ cur.value = Vec(15, 15, 15)

\* C2: a Specular scatter below the cap makes one recursive call, along
\* specular_ray at depth + 1, and returns attenuation (*) its value; emitted
\* is not added and no PDF is built, sampled or evaluated.
C2_SpecularArm ==
    /\ (Evaluated /\ cur.hit.some /\ cur.depth < MAX_DEPTH
            /\ \E sc \in ScatterOutcomes : sc.some /\ sc.val.kind = "Specular") =>
          /\ cur.pc = "call"
          /\ cur.pdf_fun = None
          /\ \E sc \in ScatterOutcomes :
                /\ sc.some
                /\ cur.next_ray = Some(sc.val.specular_ray)
                /\ cur.attenuation = sc.val.attenuation
    /\ (prog = "color" /\ stack # <<>> /\ Head(stack).kind = "Specular") =>
          /\ cur.depth = Head(stack).depth + 1
          /\ ~Head(stack).pdf_built
    /\ (Returned /\ cur.kind = "Specular") =>
          /\ cur.value = VZipMul(cur.attenuation, cur.incoming.val)
          /\ cur.pdf_fun = None

\* a mirror bounce whose nested call came back with light
C2_Witness ==
    /\ Returned
    /\ cur.kind = "Specular"
    /\ cur.attenuation # VOnes
    /\ cur.incoming.val = Vec(15, 15, 15)

\* the mixture density the Scatter arm evaluates at direction d, for a
\* light density hv
MixtureDensity(normal, d, hv) ==
    FAdd(FMul(Half, hv),
         FMul(Half, FDiv(FMax(VDot(VNormalize(d), normal), Zero), PI)))

\* C3: a Scatter record below the cap builds the mixture of the hittable PDF
\* at hit.p and the material's pdf, draws one direction d, takes pdf_val as
\* the mixture's density at d, casts (hit.p, d, ray.time()), recurses once at
\* depth + 1 and returns emitted + attenuation (*) (scattering_pdf *
\* incoming) / pdf_val, dividing whatever pdf_val is.
C3_ScatterArm ==
    /\ (Evaluated /\ cur.hit.some /\ cur.depth < MAX_DEPTH
            /\ \E sc \in ScatterOutcomes : sc.some /\ sc.val.kind = "Scatter") =>
          LET hit == cur.hit.val
              sc == CHOOSE r \in ScatterOutcomes : r.some
          IN  /\ cur.pc = "call"
              /\ cur.pdf_fun = Some(MixturePdf(HittablePdf(hit.p), sc.val.pdf))
              /\ cur.attenuation = sc.val.attenuation
              /\ cur.next_ray.some
              /\ cur.next_ray.val.origin = hit.p
              /\ cur.next_ray.val.time = cur.ray.time
              /\ cur.next_ray.val.direction \in Dirs
              /\ \E hv \in HittableVals :
                    cur.pdf_val = MixtureDensity(hit.normal,
                                                 cur.next_ray.val.direction, hv)
              /\ cur.scattering_pdf =
                    MaterialScatteringPdf(hit.material, hit, cur.next_ray.val)
    /\ (prog = "color" /\ stack # <<>> /\ Head(stack).kind = "Scatter") =>
          cur.depth = Head(stack).depth + 1
    /\ (Returned /\ cur.kind = "Scatter") =>
          cur.value =
              VAdd(cur.emitted,
                   VDivS(VZipMul(cur.attenuation,
                                 VScale(cur.scattering_pdf, cur.incoming.val)),
                         cur.pdf_val))

\* a diffuse bounce whose mixture density is 0 and whose nested call came
\* back with light: the quotient is 0/0
C3_Witness ==
    /\ Returned
    /\ cur.kind = "Scatter"
    /\ cur.pdf_val = Zero
    /\ cur.incoming.val = Vec(15, 15, 15)
    /\ cur.scattering_pdf = Zero
    /\ cur.value = <<NaN, NaN, NaN>>

\* C4: nesting is bounded.  `color` started at a depth in 0..MAX_DEPTH keeps
\* every nested depth in 0..MAX_DEPTH, each nested call is at its caller's
\* depth + 1, a call makes at most one and a call at MAX_DEPTH makes none.
\* `ray_color` nests at its caller's depth - 1, and a call with depth <= 0
\* returns without intersecting or recursing.
C4_BoundedNesting ==
    /\ prog = "color" =>
          /\ cur.depth = depth0 + Len(stack)
          /\ cur.calls <= 1
          /\ \A i \in 1..Len(stack) : stack[i].depth = cur.depth - i
          /\ depth0 \in 0..MAX_DEPTH =>
                /\ cur.depth \in 0..MAX_DEPTH
                /\ Len(stack) <= MAX_DEPTH - depth0
                /\ cur.depth = MAX_DEPTH => cur.pc # "call"
    /\ prog = "ray_color" =>
          /\ cur.depth = depth0 - Len(stack)
          /\ cur.calls <= 1
          /\ \A i \in 1..Len(stack) : stack[i].depth = cur.depth + i
          /\ depth0 >= 0 => (cur.depth >= 0 /\ Len(stack) <= depth0)
          /\ (cur.depth <= 0 /\ cur.pc # "enter") =>
                /\ cur.pc = "ret"
                /\ ~cur.intersected
                /\ cur.next_ray = None
                /\ cur.value = VZeros

\* a nested call of `color` at the cap has returned to its caller
C4_Witness ==
    /\ Returned
    /\ cur.depth = MAX_DEPTH - 1
    /\ depth0 = MAX_DEPTH - 1

\* no material of the scene emits
NoEmitter ==
    \A m \in world, d \in Dirs, n \in Normals, p \in Points :
        MaterialEmitted(m, Ray("camera", d, Zero), HitRecord(p, n, m)) = VZeros

\* C6: in a scene none of whose materials emits, `color` returns exactly the
\* zero vector, whatever the scatter outcomes and the mixture density.
C6_ZeroRadiance ==
    (prog = "color" /\ NoEmitter /\ cur.pc = "ret") => cur.value = VZeros

\* the hit in `cur` is on a dielectric below the depth cap
DielectricHit ==
    /\ Evaluated
    /\ cur.hit.some
    /\ cur.depth < MAX_DEPTH
    /\ cur.hit.val.material.kind = "Dielectric"

\* C7: a Dielectric with ref_idx = 1.0 always refracts: `refract` returns
\* Some and the specular ray follows the refracted direction.
C7_MatchedIndexRefracts ==
    (DielectricHit /\ cur.hit.val.material.ref_idx = One) =>
        LET refracted == DielectricRefracted(cur.hit.val.material, cur.ray, cur.hit.val)
        IN  /\ refracted.some
            /\ cur.next_ray = Some(Ray(cur.hit.val.p, refracted.val, cur.ray.time))

\* C8: Dielectric::scatter always returns Specular with attenuation
\* (1,1,1), origin hit.p and the ray's time; its direction is the refracted
\* one exactly when `refract` returns Some and the draw is >= the Schlick
\* probability, and the reflection about hit.normal otherwise.
C8_DielectricScatter ==
    DielectricHit =>
        LET hit == cur.hit.val
            m == hit.material
            setup == DielectricSetup(m, cur.ray, hit)
            refracted == refract(cur.ray.direction, setup.outward_normal,
                                 setup.ni_over_nt)
            refracts == /\ refracted.some
                        /\ cur.drawn.some
                        /\ FGe(cur.drawn.val, schlick(setup.cosine, m.ref_idx))
        IN  /\ cur.pc = "call"
            /\ cur.kind = "Specular"
            /\ cur.attenuation = VOnes
            /\ cur.next_ray.some
            /\ cur.next_ray.val.origin = hit.p
            /\ cur.next_ray.val.time = cur.ray.time
            /\ cur.drawn.some <=> refracted.some
            /\ cur.next_ray.val.direction =
                  IF refracts THEN refracted.val
                  ELSE VSub(cur.ray.direction,
                            VScale(FMul(F(2), VDot(cur.ray.direction, hit.normal)),
                                   hit.normal))

\* refraction is possible and the draw equals the Schlick probability: the
\* ray refracts, and it is not the reflected one
C8_Witness ==
    /\ DielectricHit
    /\ cur.drawn.some
    /\ cur.drawn.val =
          schlick(DielectricSetup(cur.hit.val.material, cur.ray, cur.hit.val).cosine,
                  cur.hit.val.material.ref_idx)
    /\ cur.next_ray.val.direction # reflect(cur.ray.direction, cur.hit.val.normal)

\* C9: DiffuseLight never scatters and emits one-sidedly: the emission
\* texture when normal . direction < 0 and zero otherwise, so a path that
\* reaches it ends there with that value.
C9_DiffuseLight ==
    (Evaluated /\ cur.hit.some /\ cur.hit.val.material.kind = "DiffuseLight") =>
        LET hit == cur.hit.val
        IN  /\ ScatterOutcomes = {None}
            /\ cur.pc = "ret"
            /\ cur.next_ray = None
            /\ cur.value = IF FLt(VDot(hit.normal, cur.ray.direction), Zero)
                           THEN hit.material.emit ELSE VZeros

\* a ray grazing the light (normal . direction = 0) below the cap gets zero
C9_Witness ==
    /\ Evaluated
    /\ cur.hit.some
    /\ cur.hit.val.material.kind = "DiffuseLight"
    /\ cur.depth < MAX_DEPTH
    /\ VDot(cur.hit.val.normal, cur.ray.direction) = Zero
    /\ cur.value = VZeros

----------------------------------------------------------------------------
(* Properties of `main` (rest_of_life)                                     *)

\* C5: whatever the order in which the rows complete, the image has
\* nx*ny*3 bytes and the bytes of pixel (x, y) sit at
\* 3*((ny-1-y)*nx + x) .. +2: rows from y = ny-1 down to 0, columns from
\* x = 0 up, each pixel once.
C5_ImageLayout ==
    (prog = "main" /\ image.some) =>
        /\ Len(image.val) = NX * NY * 3
        /\ \A x \in 0..(NX - 1), y \in 0..(NY - 1), c \in 0..2 :
              LET b == image.val[3 * ((NY - 1 - y) * NX + x) + c + 1]
              IN  b.x = x /\ b.y = y /\ b.c = c

\* the image is assembled from rows that completed in the opposite order:
\* row 0, which is laid out last, finished first
C5_Witness ==
    /\ prog = "main"
    /\ image.some
    /\ shading = "ramp"
    /\ finished[1] = 0
    /\ finished[NY] = NY - 1

\* C10 as claimed: no generator used for one pixel is used for another
C10_PrivatePerPixel ==
    prog = "main" =>
        \A u, v \in rngUses : u.rng = v.rng => u.px = v.px

\* C10, amended: a generator is used by one worker thread only, and a pixel
\* draws only from the generator of the thread that renders it
C10_PrivatePerThread ==
    prog = "main" =>
        /\ \A u, v \in rngUses : u.rng = v.rng => u.thread = v.thread
        /\ \A u, v \in rngUses : u.px = v.px => u.rng = v.rng

\* two threads have rendered pixels, each with its own generator
C10_Witness ==
    /\ prog = "main"
    /\ \E u, v \in rngUses : u.thread # v.thread /\ u.rng # v.rng

\* a hit on shape s can report a non-zero emitted radiance
CanEmit(s) ==
    \E d \in Dirs, n \in Normals, p \in Points :
        MaterialEmitted(ShapeMaterial(s), Ray("camera", d, Zero),
                        HitRecord(p, n, ShapeMaterial(s))) # VZeros

\* s is one of the objects pushed to world
InWorld(s) == \E i \in 1..Len(cornell_box_world) : cornell_box_world[i] = s

\* C11: whenever `color` runs on the Cornell box, every shape of the
\* light_shapes list that its hittable PDF targets is a member of world and
\* has a material whose emitted can be non-zero.
C11_LightShapesEmit ==
    (prog = "color" /\ world = CornellWorld) =>
        \A i \in 1..Len(cornell_box_light_shapes) :
            /\ InWorld(cornell_box_light_shapes[i])
            /\ CanEmit(cornell_box_light_shapes[i])

\* the call in `cur` has just run the closest-hit loop of `ray_color`
LoopRan == prog = "ray_color" /\ cur.intersected /\ cur.calls = 0

\* the crossings of the ray with member i that lie in (0.001, infinity)
ValidHits(i) == {t \in cur.roots[i] : FLt(T_MIN, t)}

\* the loop's locals after its first k iterations
AfterIterations(k) ==
    ClosestHit(SubSeq(world, 1, k), [i \in 1..k |-> cur.roots[i]])

\* the orders in which the members of world can be listed
WorldOrders ==
    {f \in [1..Len(world) -> 1..Len(world)] :
        \A i, j \in 1..Len(world) : f[i] = f[j] => i = j}

\* C12: after the closest-hit loop, hit_anything is true iff some member of
\* world is hit in (0.001, infinity); closest_so_far never increases from
\* one iteration to the next; rec holds t, p, normal, front_face and the
\* material of a member whose hit has the minimum t over all members; and
\* the loop run on any permutation of world ends with the same t.
C12_ClosestHit ==
    LoopRan =>
        /\ cur.hit_anything <=> \E i \in 1..Len(world) : ValidHits(i) # {}
        /\ AfterIterations(Len(world)).rec = cur.rec
        /\ AfterIterations(Len(world)).closest_so_far = cur.closest_so_far
        /\ \A k \in 0..(Len(world) - 1) :
              ~FLt(AfterIterations(k).closest_so_far,
                   AfterIterations(k + 1).closest_so_far)
        /\ cur.hit_anything =>
              /\ cur.closest_so_far = cur.rec.t
              /\ \A j \in 1..Len(world) : \A u \in ValidHits(j) :
                    ~FLt(u, cur.rec.t)
              /\ \E i \in 1..Len(world) :
                    /\ cur.rec.t \in ValidHits(i)
                    /\ \A u \in ValidHits(i) : ~FLt(u, cur.rec.t)
                    /\ cur.rec.material = world[i]
                    /\ cur.rec.p = <<"at", cur.rec.t>>
                    /\ cur.rec.normal = <<"normal", i, cur.rec.t>>
                    /\ cur.rec.front_face = <<"front_face", i, cur.rec.t>>
        /\ ~cur.hit_anything => (cur.rec = BlankRec /\ cur.closest_so_far = PInf)
        /\ \A f \in WorldOrders :
              LET st == ClosestHit([i \in 1..Len(world) |-> world[f[i]]],
                                   [i \in 1..Len(world) |-> cur.roots[f[i]]])
              IN  /\ st.hit_anything = cur.hit_anything
                  /\ st.closest_so_far = cur.closest_so_far

\* both members are hit and the later one is the nearer: closest_so_far
\* went from infinity to 2 to 1, and a crossing below t_min was skipped
C12_Witness ==
    /\ LoopRan
    /\ cur.hit_anything
    /\ cur.roots[1] = {F(2)}
    /\ cur.roots[2] = {Frac(1, 2000), One}
    /\ cur.rec.t = One
    /\ cur.rec.material = world[2]

====
